---- MODULE Spec2Model ----
(***************************************************************************)
(* The event binder of gradio/events.py (EventListener, Dependency,        *)
(* set_cancel_events, the Events catalog) and Radio.preprocess of          *)
(* gradio/components/radio.py, as a state machine.                         *)
(*                                                                         *)
(* Python values are written as follows.  None is the string "None" where  *)
(* the other values are strings, and the empty tuple <<>> where they are   *)
(* numbers, booleans or records (a present value v is then <<v>>).  The    *)
(* booleans True and False given for show_progress are the strings "True"  *)
(* and "False"; an argument the caller leaves out is "omitted".  Ordinals  *)
(* are 0-based as in Python: ordinal i is dependencies[i + 1].             *)
(***************************************************************************)
EXTENDS Integers, Sequences, FiniteSets, TLC

VARIABLES
    dependencies,        \* the hosting container's dependency table
    handles,             \* the Dependency objects returned to the caller so far
    flags,               \* per block: selectable, streaming, likeable
    postprocess_default, \* set_event_trigger's default for postprocess
    streamable,          \* whether cam.check_streamable() returns
    last,                \* the most recent call and its outcome
    choices,             \* Radio.choices
    type,                \* Radio.type
    result               \* the most recent Radio.preprocess call

vars == <<dependencies, handles, flags, postprocess_default, streamable, last, choices, type, result>>

binder_vars == <<dependencies, handles, flags, postprocess_default, streamable, last>>

radio_vars == <<choices, type, result>>

\* ------------------------------------------------------------------ bounds

MaxDeps == 4

MaxDecorators == 1

MaxOptionDeps == 3

MaxProgressDeps == 2

MaxChoices == 3

\* ------------------------------------------------------------ Python values

None == "None"

NoneV == <<>>

Some(v) == <<v>>

\* ------------------------------------------------------------------ blocks

\* Radio.EVENTS
RadioEVENTS == {"select", "change", "input"}

\* the declared events of a block that can stream
CamEVENTS == {"stream", "like"}

Blocks == {"radio", "cam"}

events(block) == IF block = "radio" THEN RadioEVENTS ELSE CamEVENTS

NoFlags == [selectable |-> FALSE, streaming |-> FALSE, likeable |-> FALSE]

\* ---------------------------------------------------------- event listeners

\* EventListener.__init__: the five values _setup closes over
EventListener(event_name, show_progress, callback, trigger_after, trigger_only_on_success) ==
    [event_name |-> event_name,
     show_progress |-> show_progress,
     callback |-> callback,
     trigger_after |-> trigger_after,
     trigger_only_on_success |-> trigger_only_on_success]

\* an event given by its name alone: EventListener's defaults
PlainListener(event_name) == EventListener(event_name, None, None, NoneV, FALSE)

\* class Events; a callback is named by the flag it sets
Events(name) ==
    CASE name = "select" -> EventListener("select", None, "selectable", NoneV, FALSE)
      [] name = "stream" -> EventListener("stream", "hidden", "streaming", NoneV, FALSE)
      [] name = "like"   -> EventListener("like", None, "likeable", NoneV, FALSE)
      [] OTHER           -> PlainListener(name)

\* the callback written as a toggle: `setattr(block, flag, not getattr(block, flag))`
RunCallback_Toggle(callback, block, fl) ==
    IF callback = None THEN fl
    ELSE [fl EXCEPT ![block] = [@ EXCEPT ![callback] = ~@]]

\* lambda block: setattr(block, <flag>, True)
RunCallback(callback, block, fl) ==
    IF callback = None THEN fl
    ELSE [fl EXCEPT ![block] = [@ EXCEPT ![callback] = TRUE]]

\* ------------------------------------------------------------ functions

\* a Python callable or the marker string, as an object with its closure
Fun(name) == [code |-> name, closure |-> NoneV]

DecoratorMarker == Fun("decorator")

\* the argument values handed to a bound function when it is called
CallArgs == 0 .. 2

\* ------------------------------------------------------ hosting container

\* block.set_event_trigger's defaults for the keywords a caller leaves out
SetEventTriggerDefaults ==
    [inputs |-> None, outputs |-> None, preprocess |-> TRUE,
     postprocess |-> postprocess_default, scroll_to_output |-> FALSE,
     show_progress |-> "full", api_name |-> None, js |-> None, queue |-> NoneV,
     batch |-> FALSE, max_batch_size |-> 4, every |-> NoneV, cancels |-> {},
     trigger_after |-> NoneV, trigger_only_on_success |-> FALSE]

\* block.set_event_trigger(event_name, fn, **kw): appends the record to the
\* table and returns it with its ordinal
set_event_trigger(deps, block, event_name, fn, kw) ==
    LET dep == [block |-> block, event_name |-> event_name, fn |-> fn]
                   @@ kw @@ SetEventTriggerDefaults
    IN  [deps |-> Append(deps, dep), dep |-> dep, index |-> Len(deps)]

\* ------------------------------------------------------------ cancellation

\* the cancels argument: None, a list of handles, or one handle; handles are
\* named by their position in the variable handles
NoCancels == [form |-> "none", hs |-> <<>>]

CancelList(hs) == [form |-> "list", hs |-> hs]

CancelOne(h) == [form |-> "single", hs |-> <<h>>]

\* `if cancels:` -- a list is true when non-empty, a Dependency (a dict) when
\* it holds keys
Truthy(cancels) ==
    CASE cancels.form = "none" -> FALSE
      [] cancels.form = "list" -> Len(cancels.hs) > 0
      [] OTHER -> handles[cancels.hs[1]].key_vals # NoneV

\* gradio.utils.get_cancel_function: the cancel function and the ordinals of
\* the listed dependencies
get_cancel_function(hs) ==
    [cancel_fn |-> Fun("cancel"),
     fn_indices_to_cancel |-> {handles[hs[i]].dep_index[1] : i \in 1 .. Len(hs)}]

\* set_cancel_events without `if not isinstance(cancels, list): cancels = [cancels]`:
\* one handle given alone is iterated as a dict and cancels nothing
set_cancel_events_ListsOnly(deps, block, event_name, cancels) ==
    IF Truthy(cancels) /\ cancels.form = "list"
    THEN LET c == get_cancel_function(cancels.hs)
         IN  set_event_trigger(deps, block, event_name, c.cancel_fn,
                 [inputs |-> None, outputs |-> None, queue |-> Some(FALSE),
                  preprocess |-> FALSE, cancels |-> c.fn_indices_to_cancel]).deps
    ELSE deps

\* set_cancel_events without queue=False
set_cancel_events_Queued(deps, block, event_name, cancels) ==
    IF Truthy(cancels)
    THEN LET c == get_cancel_function(cancels.hs)
         IN  set_event_trigger(deps, block, event_name, c.cancel_fn,
                 [inputs |-> None, outputs |-> None,
                  preprocess |-> FALSE, cancels |-> c.fn_indices_to_cancel]).deps
    ELSE deps

set_cancel_events(deps, block, event_name, cancels) ==
    IF Truthy(cancels)
    THEN LET c == get_cancel_function(cancels.hs)
         IN  set_event_trigger(deps, block, event_name, c.cancel_fn,
                 [inputs |-> None, outputs |-> None, queue |-> Some(FALSE),
                  preprocess |-> FALSE, cancels |-> c.fn_indices_to_cancel]).deps
    ELSE deps

\* ------------------------------------------------------------------ handles

\* Dependency.__init__ with .success built like .then: trigger_only_on_success=False
Dependency_SuccessUnmarked(trigger, key_vals, dep_index, fn) ==
    [trigger |-> trigger, key_vals |-> key_vals, dep_index |-> dep_index, fn |-> fn,
     then |-> EventListener("then", None, None, dep_index, FALSE),
     success |-> EventListener("success", None, None, dep_index, FALSE)]

\* Dependency.__init__ with .success built without trigger_after
Dependency_SuccessUnchained(trigger, key_vals, dep_index, fn) ==
    [trigger |-> trigger, key_vals |-> key_vals, dep_index |-> dep_index, fn |-> fn,
     then |-> EventListener("then", None, None, dep_index, FALSE),
     success |-> EventListener("success", None, None, NoneV, TRUE)]

\* Dependency.__init__ with .then chained after the ordinal that follows
\* dep_index
Dependency_ThenForward(trigger, key_vals, dep_index, fn) ==
    [trigger |-> trigger, key_vals |-> key_vals, dep_index |-> dep_index, fn |-> fn,
     then |-> EventListener("then", None, None,
                            IF dep_index = NoneV THEN NoneV ELSE Some(dep_index[1] + 1),
                            FALSE),
     success |-> EventListener("success", None, None, dep_index, TRUE)]

\* Dependency.__init__: the dict of key_vals with fn, trigger and the two
\* follow-up listeners bound to trigger
Dependency(trigger, key_vals, dep_index, fn) ==
    [trigger |-> trigger, key_vals |-> key_vals, dep_index |-> dep_index, fn |-> fn,
     then |-> EventListener("then", None, None, dep_index, FALSE),
     success |-> EventListener("success", None, None, dep_index, TRUE)]

\* ------------------------------------------------------------ event_trigger

\* event_trigger's signature: the defaults of the parameters after fn
SignatureDefaults ==
    [inputs |-> None, outputs |-> None, api_name |-> None, status_tracker |-> None,
     scroll_to_output |-> FALSE, show_progress |-> "full", queue |-> NoneV,
     batch |-> FALSE, max_batch_size |-> 4, preprocess |-> TRUE, postprocess |-> TRUE,
     cancels |-> NoCancels, every |-> NoneV, js |-> None]

\* event_trigger's signature: the parameters in order, bound to a positional call
Signature(t) ==
    [block |-> t[1], fn |-> t[2], inputs |-> t[3], outputs |-> t[4], api_name |-> t[5],
     status_tracker |-> t[6], scroll_to_output |-> t[7], show_progress |-> t[8],
     queue |-> t[9], batch |-> t[10], max_batch_size |-> t[11], preprocess |-> t[12],
     postprocess |-> t[13], cancels |-> t[14], every |-> t[15], js |-> t[16]]

\* a call block.<event>(fn, **kw): the keywords given, the rest at their defaults
KeywordCall(block, fn, kw) == [block |-> block, fn |-> fn] @@ kw @@ SignatureDefaults

\* `if isinstance(show_progress, bool): ...`
CoerceShowProgress(show_progress) ==
    CASE show_progress = "True" -> "full"
      [] show_progress = "False" -> "hidden"
      [] OTHER -> show_progress

\* `show_progress if show_progress is not None else _show_progress`
ProgressMode(show_progress, _show_progress) ==
    IF show_progress # None THEN show_progress ELSE _show_progress

\* the wrapper closure of the decorator branch
Wrapper(el, p) == [code |-> "wrapper", closure |-> Some([el |-> el, p |-> p])]

\* the outcome of a call that raised: nothing registered, nothing returned
Raised(checked, deps, fl) ==
    [raised |-> TRUE, checked |-> checked, deps |-> deps, flags |-> fl, ret |-> NoneV]

\* the keywords event_trigger hands to block.set_event_trigger
TriggerKeywords(el, p) ==
    [inputs |-> p.inputs, outputs |-> p.outputs,
     preprocess |-> p.preprocess, postprocess |-> p.postprocess,
     scroll_to_output |-> p.scroll_to_output,
     show_progress |-> ProgressMode(CoerceShowProgress(p.show_progress), el.show_progress),
     api_name |-> p.api_name, js |-> p.js, queue |-> p.queue, batch |-> p.batch,
     max_batch_size |-> p.max_batch_size, every |-> p.every,
     trigger_after |-> el.trigger_after,
     trigger_only_on_success |-> el.trigger_only_on_success]

\* event_trigger returning the ordinal of the last record of the table, read
\* after set_cancel_events
Register_IndexAfterCancel(el, p, deps, fl) ==
    LET r == set_event_trigger(deps, p.block, el.event_name, p.fn, TriggerKeywords(el, p))
        after == set_cancel_events(r.deps, p.block, el.event_name, p.cancels)
    IN  [raised |-> FALSE, checked |-> "stream" \in events(p.block),
         deps |-> after,
         flags |-> RunCallback(el.callback, p.block, fl),
         ret |-> Some(Dependency(p.block, Some(r.dep), Some(Len(after) - 1), p.fn))]

\* the part of event_trigger after check_streamable: register, set the cancel
\* events, run the callback, return the handle
Register(el, p, deps, fl) ==
    LET r == set_event_trigger(deps, p.block, el.event_name, p.fn, TriggerKeywords(el, p))
    IN  [raised |-> FALSE, checked |-> "stream" \in events(p.block),
         deps |-> set_cancel_events(r.deps, p.block, el.event_name, p.cancels),
         flags |-> RunCallback(el.callback, p.block, fl),
         ret |-> Some(Dependency(p.block, Some(r.dep), Some(r.index), p.fn))]

\* event_trigger calling check_streamable after the registration
event_trigger_CheckLate(el, p, deps, fl, check_ok) ==
    IF p.fn = DecoratorMarker
    THEN [raised |-> FALSE, checked |-> FALSE, deps |-> deps, flags |-> fl,
          ret |-> Some(Dependency(None, NoneV, NoneV, Wrapper(el, p)))]
    ELSE IF p.block = None
    THEN Raised(FALSE, deps, fl)
    ELSE IF "stream" \in events(p.block) /\ ~check_ok
    THEN Raised(TRUE, Register(el, p, deps, fl).deps, Register(el, p, deps, fl).flags)
    ELSE Register(el, p, deps, fl)

\* event_trigger of the listener el with bound parameters p, on table deps and
\* flags fl; check_ok is whether block.check_streamable() returns.  The two
\* deprecation warnings (status_tracker, "stop") change no state.  A handle of
\* a decorator bind has trigger None, and `block.events` raises on it.
event_trigger(el, p, deps, fl, check_ok) ==
    IF p.fn = DecoratorMarker
    THEN [raised |-> FALSE, checked |-> FALSE, deps |-> deps, flags |-> fl,
          ret |-> Some(Dependency(None, NoneV, NoneV, Wrapper(el, p)))]
    ELSE IF p.block = None
    THEN Raised(FALSE, deps, fl)
    ELSE IF "stream" \in events(p.block) /\ ~check_ok
    THEN Raised(TRUE, deps, fl)
    ELSE Register(el, p, deps, fl)

\* wrapper(func) with preprocess and postprocess handed over in the wrong order
WrapperCall_Swapped(c, func) ==
    Signature(<<c.p.block, func, c.p.inputs, c.p.outputs, c.p.api_name,
                c.p.status_tracker, c.p.scroll_to_output, c.p.show_progress,
                c.p.queue, c.p.batch, c.p.max_batch_size, c.p.postprocess,
                c.p.preprocess, c.p.cancels, c.p.every, c.p.js>>)

\* wrapper(func): the positional call of event_trigger with the closure's values
WrapperCall(c, func) ==
    Signature(<<c.p.block, func, c.p.inputs, c.p.outputs, c.p.api_name,
                c.p.status_tracker, c.p.scroll_to_output, c.p.show_progress,
                c.p.queue, c.p.batch, c.p.max_batch_size, c.p.preprocess,
                c.p.postprocess, c.p.cancels, c.p.every, c.p.js>>)

\* inner: the function wrapper returns
Inner(func) == [code |-> "inner", closure |-> Some(func)]

\* what calling a function object with one argument returns
RECURSIVE CallFn(_, _)
CallFn(fn, x) ==
    CASE fn.code = "f" -> x + 1
      [] fn.code = "g" -> 2 * x
      [] fn.code = "inner" -> CallFn(fn.closure[1], x)
      [] OTHER -> -1

\* -------------------------------------------------------------------- Radio

\* the values a choice can carry and a caller can select
\* the strings "a" and "1" and the number 1, written "int:1"
Values == {"a", "1", "int:1"}

\* a choice as given to Radio(...): a bare value, or a (name, value) tuple
Bare(v) == [is_tuple |-> FALSE, name |-> None, value |-> v]

Pair(name, v) == [is_tuple |-> TRUE, name |-> name, value |-> v]

RawChoices == {Bare(v) : v \in Values} \cup {Pair("x", v) : v \in Values}

\* str(c): a string is itself, the number 1 becomes "1"
Str(v) == IF v = "int:1" THEN "1" ELSE v

\* Radio.__init__: `[c if isinstance(c, tuple) else (str(c), c) for c in choices]
\* if choices else []`
NormalizeChoices(raw) ==
    IF Len(raw) > 0
    THEN [i \in 1 .. Len(raw) |->
             IF raw[i].is_tuple THEN <<raw[i].name, raw[i].value>>
             ELSE <<Str(raw[i].value), raw[i].value>>]
    ELSE <<>>

valid_types == {"value", "index"}

\* `[value for _, value in self.choices]`
choice_values(ch) == [i \in 1 .. Len(ch) |-> ch[i][2]]

\* list.index(x) taken from the end of the list
ListIndex_Last(list, x) ==
    (CHOOSE i \in 1 .. Len(list) :
        list[i] = x /\ \A j \in i + 1 .. Len(list) : list[j] # x) - 1

\* list.index(x): the 0-based position of the first element equal to x
ListIndex(list, x) ==
    (CHOOSE i \in 1 .. Len(list) :
        list[i] = x /\ \A j \in 1 .. i - 1 : list[j] # x) - 1

\* `x in list`
Contains(list, x) == \E i \in 1 .. Len(list) : list[i] = x

\* Radio.preprocess(x): the value returned, or raised
preprocess(ty, ch, x) ==
    IF ty = "value" THEN [raised |-> FALSE, ret |-> Some(x)]
    ELSE IF ty = "index"
    THEN IF x = None THEN [raised |-> FALSE, ret |-> NoneV]
         ELSE IF Contains(choice_values(ch), x)
              THEN [raised |-> FALSE, ret |-> Some(ListIndex(choice_values(ch), x))]
              ELSE [raised |-> FALSE, ret |-> NoneV]
    ELSE [raised |-> TRUE, ret |-> NoneV]

NoResult == [called |-> FALSE, x |-> None, raised |-> FALSE, ret |-> NoneV]

\* ---------------------------------------------------------------- the state

NoCall ==
    [op |-> "none", h |-> 0, block |-> None, event_name |-> None, fn |-> Fun(None),
     kw |-> <<>>, raised |-> FALSE, checked |-> FALSE, n0 |-> 0, ret |-> 0,
     inner |-> NoneV]

InitBinder ==
    /\ dependencies = <<>>
    /\ handles = <<>>
    /\ flags = [b \in Blocks |-> NoFlags]
    /\ last = NoCall

InitRadio ==
    /\ choices = <<>>
    /\ type = "value"
    /\ result = NoResult

Init ==
    /\ InitBinder
    /\ streamable \in BOOLEAN
    /\ postprocess_default = TRUE
    /\ InitRadio

\* ------------------------------------------------------------------- inputs

Fns == {Fun("f"), Fun("g")}

\* the keyword arguments of a call: none given, or every one given
KwNone == <<>>

KwAll ==
    [inputs |-> "radio", outputs |-> "cam", api_name |-> "run",
     status_tracker |-> "tracker", scroll_to_output |-> TRUE,
     show_progress |-> "minimal", queue |-> Some(TRUE), batch |-> TRUE,
     max_batch_size |-> 8, preprocess |-> FALSE, postprocess |-> TRUE,
     every |-> Some(5), js |-> "js"]

\* a legacy call: a boolean for show_progress, queued, no postprocessing
KwLegacy ==
    [show_progress |-> "False", queue |-> Some(TRUE), preprocess |-> TRUE,
     postprocess |-> FALSE]

\* the parameters after fn of a bound call, as keywords
Keywords(p) == [k \in DOMAIN SignatureDefaults |-> p[k]]

\* a keyword as the caller gave it
Given(kw, name) == IF name \in DOMAIN kw THEN kw[name] ELSE "omitted"

\* the handles of registered dependencies
Registered == {h \in 1 .. Len(handles) : handles[h].dep_index # NoneV}

\* the handles of decorator binds
Decorators == {h \in 1 .. Len(handles) : handles[h].fn.code = "wrapper"}

\* the cancels a caller can pass, in the given forms: None, an empty list, one
\* handle, a list of one handle, a list of two handles
CancelChoices(forms) ==
    {NoCancels : x \in forms \cap {"none"}}
        \cup {CancelList(<<>>) : x \in forms \cap {"empty"}}
        \cup {CancelOne(h) : h \in {x \in Registered : "one" \in forms}}
        \cup {CancelList(<<h>>) : h \in {x \in Registered : "list" \in forms}}
        \cup {CancelList(<<q[1], q[2]>>) :
                 q \in {r \in Registered \X Registered : r[1] <= r[2] /\ "pair" \in forms}}

\* ------------------------------------------------------------------ actions

\* one call of a listener: event_trigger runs, the caller keeps what it returns
Call(op, h, el, block, fn, kw, maxdeps) ==
    /\ Len(dependencies) < maxdeps
    /\ fn = DecoratorMarker => Cardinality(Decorators) < MaxDecorators
    /\ \E out \in {event_trigger(el, KeywordCall(block, fn, kw), dependencies, flags, streamable)} :
        /\ Len(out.deps) <= maxdeps
        /\ dependencies' = out.deps
        /\ flags' = out.flags
        /\ handles' = IF out.raised THEN handles ELSE Append(handles, out.ret[1])
        /\ last' = [op |-> op, h |-> h, block |-> block, event_name |-> el.event_name,
                    fn |-> fn, kw |-> kw,
                    raised |-> out.raised, checked |-> out.checked,
                    n0 |-> Len(dependencies),
                    ret |-> IF out.raised THEN 0 ELSE Len(handles) + 1,
                    inner |-> NoneV]
        /\ UNCHANGED <<postprocess_default, streamable, radio_vars>>

\* block.<event>(fn, ...), with the arguments drawn from the menu m
Bind(m) ==
    \E block \in Blocks, fn \in m.fns, kw \in m.kws :
        \E ev \in events(block) \cap m.events, cancels \in CancelChoices(m.cancels) :
            Call("bind", 0, Events(ev), block, fn, [cancels |-> cancels] @@ kw, m.maxdeps)

\* handle.then(fn, ...)
Then(m) ==
    \E h \in 1 .. Len(handles), fn \in m.fns, kw \in m.kws :
        \E cancels \in CancelChoices(m.cancels) :
            Call("then", h, handles[h].then, handles[h].trigger, fn,
                 [cancels |-> cancels] @@ kw, m.maxdeps)

\* handle.success(fn, ...)
Success(m) ==
    \E h \in 1 .. Len(handles), fn \in m.fns, kw \in m.kws :
        \E cancels \in CancelChoices(m.cancels) :
            Call("success", h, handles[h].success, handles[h].trigger, fn,
                 [cancels |-> cancels] @@ kw, m.maxdeps)

\* handle(func) on the handle of a decorator bind: Dependency.__call__ runs
\* wrapper(func), which binds func, drops the handle and returns inner
Decorate(m) ==
    \E h \in Decorators, func \in Fns :
        /\ Len(dependencies) < m.maxdeps
        /\ \E c \in {handles[h].fn.closure[1]} :
           \E p \in {WrapperCall(c, func)} :
           \E out \in {event_trigger(c.el, p, dependencies, flags, streamable)} :
            /\ Len(out.deps) <= m.maxdeps
            /\ dependencies' = out.deps
            /\ flags' = out.flags
            /\ last' = [op |-> "decorate", h |-> h, block |-> p.block,
                        event_name |-> c.el.event_name, fn |-> func,
                        kw |-> Keywords(p),
                        raised |-> out.raised, checked |-> out.checked,
                        n0 |-> Len(dependencies), ret |-> 0,
                        inner |-> IF out.raised THEN NoneV ELSE Some(Inner(func))]
            /\ UNCHANGED <<handles, postprocess_default, streamable, radio_vars>>

\* ------------------------------------------------------------ specifications

\* chains and cancellations: plain functions, no keywords, tables of MaxDeps
ChainMenu ==
    [fns |-> {Fun("f")}, kws |-> {KwNone},
     events |-> {"select", "change", "stream", "like"},
     cancels |-> {"none", "empty", "one", "list", "pair"}, maxdeps |-> MaxDeps]

Next == Bind(ChainMenu) \/ Then(ChainMenu) \/ Success(ChainMenu)

Spec == Init /\ [][Next]_vars

\* options and decorators: binds of "select" with no keyword, every keyword
\* or the legacy ones, used directly or as decorators, cancelling at most one
\* handle, tables of MaxOptionDeps
OptionMenu ==
    [fns |-> {Fun("f"), DecoratorMarker}, kws |-> {KwNone, KwAll, KwLegacy},
     events |-> {"select"},
     cancels |-> {"none", "one"}, maxdeps |-> MaxOptionDeps]

InitOptions ==
    /\ InitBinder
    /\ streamable = TRUE
    /\ postprocess_default \in BOOLEAN
    /\ InitRadio

NextOptions == Bind(OptionMenu) \/ Decorate(OptionMenu)

SpecOptions == InitOptions /\ [][NextOptions]_vars

\* progress modes: show_progress left out or given in each of its forms, on
\* every kind of event, tables of MaxProgressDeps
ProgressKeywords ==
    {KwNone} \cup {[show_progress |-> v] :
                      v \in {"full", "minimal", "hidden", "True", "False", None}}

ProgressMenu ==
    [fns |-> {Fun("f")}, kws |-> ProgressKeywords,
     events |-> {"select", "change", "stream", "like"},
     cancels |-> {"none"}, maxdeps |-> MaxProgressDeps]

NextProgress == Bind(ProgressMenu) \/ Then(ProgressMenu) \/ Success(ProgressMenu)

SpecProgress == Init /\ [][NextProgress]_vars

\* Radio: every list of up to MaxChoices choices, both types, every selection
Selections == Values \cup {None, "z"}

InitRadioAny ==
    /\ \E n \in 0 .. MaxChoices : \E raw \in [1 .. n -> RawChoices] :
          choices = NormalizeChoices(raw)
    /\ type \in valid_types
    /\ result = NoResult

\* radio.preprocess(x)
Preprocess ==
    \E x \in Selections :
        /\ result' = [called |-> TRUE, x |-> x] @@ preprocess(type, choices, x)
        /\ UNCHANGED <<choices, type, binder_vars>>

InitRadioSpec ==
    /\ InitBinder
    /\ streamable = TRUE
    /\ postprocess_default = TRUE
    /\ InitRadioAny

NextRadio == Preprocess

SpecRadio == InitRadioSpec /\ [][NextRadio]_vars

\* ------------------------------------------------------------------ claims

\* the call in last ran the binder to its end: not a decorator bind, no raise
Completed ==
    /\ last.op \in {"bind", "then", "success"}
    /\ last.fn # DecoratorMarker
    /\ ~last.raised

\* the main record the call in last registered
MainRecord == dependencies[last.n0 + 1]

\* the handles listed in the cancels of the call in last
Listed == {last.kw.cancels.hs[i] : i \in 1 .. Len(last.kw.cancels.hs)}

\* C1: H.then on the handle H of a registered dependency with ordinal i
\* registers a record with trigger_after = i and trigger_only_on_success
\* false, H.success one with trigger_after = i and trigger_only_on_success
\* true, however many records were registered since H was returned.
C1_FollowUpOrdinal ==
    (Completed /\ last.op \in {"then", "success"} /\ last.h \in Registered) =>
        /\ Len(dependencies) > last.n0
        /\ MainRecord.trigger_after = handles[last.h].dep_index
        /\ MainRecord.trigger_only_on_success = (last.op = "success")

\* a .success on a handle after two later handles were returned
C1_Witness ==
    /\ Completed
    /\ last.op = "success"
    /\ last.ret - last.h >= 3
    /\ MainRecord.trigger_after = Some(0)
    /\ MainRecord.trigger_only_on_success

\* C2: a completed bind whose cancels is a non-empty list of handles, or one
\* handle, adds exactly two records, the main one and one cancel record on the
\* same event whose targets are the ordinals of the listed handles; a bind
\* whose cancels is None or empty adds exactly one record.
C2_CancelRecord ==
    Completed =>
        IF last.kw.cancels.hs # <<>>
        THEN /\ Len(dependencies) = last.n0 + 2
             /\ MainRecord.cancels = {}
             /\ MainRecord.fn = last.fn
             /\ dependencies[last.n0 + 2].event_name = MainRecord.event_name
             /\ dependencies[last.n0 + 2].event_name = last.event_name
             /\ dependencies[last.n0 + 2].block = last.block
             /\ dependencies[last.n0 + 2].cancels =
                    {handles[h].dep_index[1] : h \in Listed}
        ELSE Len(dependencies) = last.n0 + 1

\* a bind with cancels=[A, B], two different handles
C2_Witness ==
    /\ Completed
    /\ last.kw.cancels.form = "list"
    /\ Cardinality(Listed) = 2
    /\ Len(dependencies) = last.n0 + 2
    /\ Cardinality(dependencies[last.n0 + 2].cancels) = 2

\* the event whose callback sets a flag
FlagEvent(flag) ==
    CASE flag = "selectable" -> "select"
      [] flag = "streaming" -> "stream"
      [] OTHER -> "like"

FlagNames == {"selectable", "streaming", "likeable"}

\* C5: once "select" has been bound on a block its selectable flag is true,
\* however often it is bound; no step sets a flag back to false; a step
\* changes a flag of a block only by binding that flag's event on that block
\* (binding change, click or a follow-up changes none).
C5_CapabilityFlags ==
    [][/\ \A b \in Blocks : \A f \in FlagNames :
            /\ flags[b][f] => flags'[b][f]
            /\ flags'[b][f] # flags[b][f] =>
                   (last'.block = b /\ last'.event_name = FlagEvent(f))
       /\ \A b \in Blocks :
            (\E i \in 1 .. Len(dependencies') :
                 /\ dependencies'[i].block = b
                 /\ dependencies'[i].event_name = "select")
                => flags'[b].selectable
      ]_vars

\* select bound twice on the radio, change bound once, like bound on the cam
C5_Witness ==
    /\ Cardinality({i \in 1 .. Len(dependencies) :
           dependencies[i].block = "radio" /\ dependencies[i].event_name = "select"}) = 2
    /\ \E i \in 1 .. Len(dependencies) : dependencies[i].event_name = "change"
    /\ flags["radio"] = [selectable |-> TRUE, streaming |-> FALSE, likeable |-> FALSE]
    /\ flags["cam"] = [selectable |-> FALSE, streaming |-> FALSE, likeable |-> TRUE]

\* C7: every handle's ordinal names the record it was returned for, with the
\* fields it had when registered; that record is the main one (it carries the
\* bound function and cancels nothing), not the cancel record of the same
\* call; a handle returned later holds a strictly larger ordinal.
C7_StableOrdinals ==
    /\ \A h \in Registered :
        /\ handles[h].dep_index[1] + 1 \in 1 .. Len(dependencies)
        /\ dependencies[handles[h].dep_index[1] + 1] = handles[h].key_vals[1]
        /\ dependencies[handles[h].dep_index[1] + 1].fn = handles[h].fn
        /\ dependencies[handles[h].dep_index[1] + 1].cancels = {}
    /\ \A g, h \in Registered :
        g < h => handles[g].dep_index[1] < handles[h].dep_index[1]

\* a handle whose call also registered a cancel record, and a later handle
C7_Witness ==
    \E g, h \in Registered :
        /\ g < h
        /\ dependencies[handles[g].dep_index[1] + 2].cancels # {}
        /\ handles[h].dep_index[1] = handles[g].dep_index[1] + 2
        /\ last.op = "then"
        /\ Len(dependencies) = 4

\* the call in last, bound to event_trigger's parameters
LastParams == KeywordCall(last.block, last.fn, last.kw)

\* what H.then would have registered in place of the call in last
ThenRecord ==
    Register(handles[last.h].then, LastParams,
             SubSeq(dependencies, 1, last.n0), flags).deps[last.n0 + 1]

\* C9 as stated: H.success registers what H.then would register at the same
\* point, on the same "then" event, with only trigger_only_on_success changed
\* to true.
C9_SuccessIsThen ==
    (Completed /\ last.op = "success") =>
        MainRecord = [ThenRecord EXCEPT !.trigger_only_on_success = TRUE]

\* C9 amended: H.success registers what H.then would register at the same
\* point, except that trigger_only_on_success is true and the event name is
\* "success" instead of "then".
C9_SuccessIsThenRenamed ==
    (Completed /\ last.op = "success") =>
        /\ ThenRecord.event_name = "then"
        /\ ~ThenRecord.trigger_only_on_success
        /\ MainRecord = [ThenRecord EXCEPT !.trigger_only_on_success = TRUE,
                                           !.event_name = "success"]

\* a .success on the handle of the second record
C9_Witness ==
    /\ Completed
    /\ last.op = "success"
    /\ handles[last.h].dep_index = Some(1)
    /\ MainRecord.event_name = "success"
    /\ MainRecord.trigger_after = Some(1)

\* C10: a non-decorator bind on a block calls check_streamable exactly when
\* "stream" is among the block's events, and before set_event_trigger: when
\* the check fails the bind adds no record, main or cancel, and changes no
\* flag.
C10_CheckBeforeRegister ==
    [][(last'.op \in {"bind", "then", "success"}
            /\ last'.fn # DecoratorMarker /\ last'.block # None) =>
          /\ last'.checked = ("stream" \in events(last'.block))
          /\ (last'.checked /\ ~streamable) =>
                /\ last'.raised
                /\ dependencies' = dependencies
                /\ flags' = flags
      ]_vars

\* a bind of "stream" with cancels on a cam that is not streamable
C10_Witness ==
    /\ last.op = "bind"
    /\ last.block = "cam"
    /\ last.event_name = "stream"
    /\ last.kw.cancels.hs # <<>>
    /\ last.checked
    /\ last.raised
    /\ Len(dependencies) = last.n0
    /\ ~flags["cam"].streaming

\* the cancel records of the table
CancelRecords == {i \in 1 .. Len(dependencies) : dependencies[i].fn = Fun("cancel")}

\* C3 as stated: a cancel record has queueing, preprocessing and
\* postprocessing disabled and no inputs and outputs, whatever the options of
\* the main binding.
C3_CancelRecordAllOff ==
    \A i \in CancelRecords :
        /\ dependencies[i].queue = Some(FALSE)
        /\ ~dependencies[i].preprocess
        /\ ~dependencies[i].postprocess
        /\ dependencies[i].inputs = None
        /\ dependencies[i].outputs = None

\* C3 amended: a cancel record has queueing and preprocessing disabled and no
\* inputs and outputs, whatever the options of the main binding; its
\* postprocess is not passed and is set_event_trigger's default, not the main
\* binding's value.
C3_CancelRecordOptions ==
    \A i \in CancelRecords :
        /\ dependencies[i].queue = Some(FALSE)
        /\ ~dependencies[i].preprocess
        /\ dependencies[i].postprocess = postprocess_default
        /\ dependencies[i].inputs = None
        /\ dependencies[i].outputs = None

\* a cancel record after a main record that is queued, preprocessed and not
\* postprocessed
C3_Witness ==
    \E i \in CancelRecords :
        /\ i > 1
        /\ dependencies[i - 1].fn = Fun("f")
        /\ dependencies[i - 1].queue = Some(TRUE)
        /\ dependencies[i - 1].preprocess
        /\ ~dependencies[i - 1].postprocess
        /\ dependencies[i].queue = Some(FALSE)
        /\ dependencies[i].postprocess

\* the progress mode an event kind gives when it has one of its own
KindDefault(event_name) == Events(event_name).show_progress

\* C4 as stated: the show_progress of the registered record is the caller's
\* mode when one is given, "full" for True, "hidden" for False, and the event
\* kind's own default when the caller gives none ("hidden" for "stream").
C4_ProgressMode ==
    (Completed /\ last.op = "bind") =>
        LET given == Given(last.kw, "show_progress")
        IN  CASE given \in {"full", "minimal", "hidden"} ->
                     MainRecord.show_progress = given
              [] given = "True" -> MainRecord.show_progress = "full"
              [] given = "False" -> MainRecord.show_progress = "hidden"
              [] given = "omitted" /\ KindDefault(last.event_name) # None ->
                     MainRecord.show_progress = KindDefault(last.event_name)
              [] OTHER -> TRUE

\* C6: a bind with fn="decorator" registers nothing and changes no flag; each
\* application of the handle it returns to a function registers what a direct
\* bind of that function with the captured block, event and keywords registers
\* from the same table, and returns a function that returns what the function
\* returns.
C6_DecoratorIsBind ==
    [][/\ (last'.op = "bind" /\ last'.fn = DecoratorMarker) =>
            /\ dependencies' = dependencies
            /\ flags' = flags
            /\ ~last'.raised
       /\ last'.op = "decorate" =>
            LET c == handles[last'.h].fn.closure[1]
                direct == event_trigger(c.el, KeywordCall(c.p.block, last'.fn, Keywords(c.p)),
                                        dependencies, flags, streamable)
            IN  /\ dependencies' = direct.deps
                /\ flags' = direct.flags
                /\ last'.raised = direct.raised
                /\ ~last'.raised =>
                      \A x \in CallArgs :
                          CallFn(last'.inner[1], x) = CallFn(last'.fn, x)
      ]_vars

\* a decorator given every keyword and a handle to cancel, applied to g
C6_Witness ==
    /\ last.op = "decorate"
    /\ ~last.raised
    /\ last.fn = Fun("g")
    /\ Len(dependencies) = last.n0 + 2
    /\ MainRecord.fn = Fun("g")
    /\ MainRecord.api_name = "run"
    /\ ~MainRecord.preprocess
    /\ MainRecord.postprocess
    /\ dependencies[last.n0 + 2].cancels = {0}
    /\ flags["radio"].selectable
    /\ CallFn(last.inner[1], 2) = 4

\* C8: with type "index", preprocess(x) returns the position of the first
\* choice whose value is x when there is one, and None when x is None or no
\* choice has value x; it never raises.
C8_IndexOfFirst ==
    (result.called /\ type = "index") =>
        /\ ~result.raised
        /\ IF result.x # None /\ \E i \in 1 .. Len(choices) : choices[i][2] = result.x
           THEN /\ result.ret # NoneV
                /\ result.ret[1] \in 0 .. Len(choices) - 1
                /\ choices[result.ret[1] + 1][2] = result.x
                /\ \A j \in 1 .. result.ret[1] : choices[j][2] # result.x
           ELSE result.ret = NoneV

\* the selected value is carried by the second and the third choice
C8_Witness ==
    /\ result.called
    /\ type = "index"
    /\ Len(choices) = 3
    /\ choices[1][2] # result.x
    /\ choices[2][2] = result.x
    /\ choices[3][2] = result.x
    /\ result.ret = Some(1)

\* C11: every record with a trigger-after ordinal has it strictly smaller than
\* the record's own ordinal and naming a record of the table, so follow-up
\* chains are acyclic; every record of a catalog event (select, change,
\* stream, like) has no trigger-after ordinal and trigger_only_on_success
\* false.
C11_AcyclicChains ==
    \A i \in 1 .. Len(dependencies) :
        /\ dependencies[i].trigger_after # NoneV =>
               /\ dependencies[i].trigger_after[1] >= 0
               /\ dependencies[i].trigger_after[1] < i - 1
        /\ dependencies[i].event_name \in RadioEVENTS \cup CamEVENTS =>
               /\ dependencies[i].trigger_after = NoneV
               /\ ~dependencies[i].trigger_only_on_success

\* a chain of three follow-ups, each after the one before, on a catalog bind
C11_Witness ==
    /\ Len(dependencies) = 4
    /\ dependencies[1].event_name \in RadioEVENTS \cup CamEVENTS
    /\ dependencies[1].trigger_after = NoneV
    /\ dependencies[2].trigger_after = Some(0)
    /\ dependencies[3].trigger_after = Some(1)
    /\ dependencies[4].trigger_after = Some(2)
    /\ dependencies[4].trigger_only_on_success

====
